---- MODULE Spec2Model ----
(***************************************************************************)
(* gulp-run (src/index.js): a Transform stream in object mode that spawns   *)
(* one child process per vinyl file piped in, plus cmd.exec([print]) which  *)
(* runs the command once and returns a one-file stream.                     *)
(*                                                                          *)
(* The model follows Node's single-threaded event loop: a handler runs to   *)
(* completion (one action), callbacks given to process.nextTick run before  *)
(* any further I/O event is dispatched, and child processes make progress   *)
(* on their own.                                                            *)
(***************************************************************************)
EXTENDS Integers, Sequences, FiniteSets, TLC

\* ---------------------------------------------------------------- bounds
MaxCmds     == 2    \* calls of run(command)
MaxFiles    == 2    \* files written to the stage of the first command
MaxExecs    == 2    \* calls of cmd.exec(print)
MaxChildren == 2    \* child processes spawned in all
MaxChunks   == 2    \* output chunks one child process produces
MaxCmdLen   == 5    \* characters of a command string, all strings up to it

\* ---------------------------------------------------------------- inputs
NL == "\n"
\* The chunks a child may write to its stdout: text inside a line, and the end
\* of one line followed by the start of the next.
Chunks == {<<"x">>, <<NL, "x">>}
\* The contents a non-null file may arrive with.
Inputs == {<<>>, <<"x", NL>>}
\* A command string is the sequence of its characters. The command the
\* pipelines are run with: a bare program name, no arguments.
Commands == {<<"e", "c", "h", "o">>}
\* The characters command strings are made of: a letter, the space, the two
\* quotes and the backslash.
Alphabet == {"a", " ", "'", "\"", "\\"}
\* Longer commands: quoted arguments with spaces inside, given twice, after
\* runs of spaces and a tab.
LongInputs ==
    {<<"a", " ", " ", "'", "a", " ", " ", "a", "'", "\t", "'", "a", " ", " ", "a", "'", " ", "a">>,
     <<"a", " ", "\"", "a", "\\", "\"", " ", "a", "\"", " ", "'", "\\", "'">>}
\* The command strings run() is tried with.
ParseInputs ==
    UNION {[1..n -> Alphabet] : n \in 0..MaxCmdLen} \cup LongInputs
\* process.env.PATH before the module is used, as a list of directories.
AmbientPATH == <<"/usr/bin">>

\* ---------------------------------------------------------------- helpers
RECURSIVE Flatten(_)
\* The bytes of a sequence of chunks, in order.
Flatten(chunks) ==
    IF chunks = <<>> THEN <<>> ELSE Head(chunks) \o Flatten(Tail(chunks))

IsPrefix(a, b) == Len(a) <= Len(b) /\ SubSeq(b, 1, Len(a)) = a

Range(s) == {s[i] : i \in 1..Len(s)}

\* ---------------------------------------------------------------- vinyl contents
\* A contents slot: null, a Buffer (its bytes), a Stream (which one), or
\* something that is none of the three.
NullContents      == [t |-> "null",   bytes |-> <<>>, of |-> "none", id |-> 0]
BufferOf(b)       == [t |-> "buffer", bytes |-> b,    of |-> "none", id |-> 0]
StreamOf(what, i) == [t |-> "stream", bytes |-> <<>>, of |-> what,   id |-> i]
OtherContents     == [t |-> "other",  bytes |-> <<>>, of |-> "none", id |-> 0]

isNull(file)   == file.contents.t = "null"
isStream(file) == file.contents.t = "stream"
isBuffer(file) == file.contents.t = "buffer"

\* The contents of file number f as it arrives, for each representation.
ArrivingContents(kind, f, data) ==
    CASE kind = "null"   -> NullContents
      [] kind = "buffer" -> BufferOf(data)
      [] kind = "stream" -> StreamOf("source", f)
      [] OTHER           -> OtherContents

\* new Buffer(0)
EmptyBuffer == <<>>

\* Buffer.concat(list, totalLength): the buffers of list copied one after the
\* other into a new buffer of totalLength bytes (cut, or zero-filled, to it).
BufferConcat(list, totalLength) ==
    LET all == Flatten(list) IN
    [i \in 1..totalLength |-> IF i <= Len(all) THEN all[i] ELSE "0"]

\* ---------------------------------------------------------------- state
VARIABLES
    processEnv,   \* process.env.PATH, a list of directories
    cmds,         \* the commands constructed by run(), in order
    files,        \* the files written to the stage of cmds[1], in arrival order
    handed,       \* how many of them _transform has been called with
    busy,         \* _transform was called and its done() has not run yet
    pushed,       \* the files stream.push()ed downstream, in order
    ticks,        \* the process.nextTick queue
    children,     \* the child processes spawned, in order
    execs,        \* the calls of cmd.exec(), in order
    stdoutText,   \* what was written to process.stdout
    stageErrors,  \* the 'error' events emitted on the stage
    crashed,      \* an exception reached the top of the event loop
    parseErrors   \* the command strings run() threw a parse error for

vars == <<processEnv, cmds, files, handed, busy, pushed, ticks, children,
          execs, stdoutText, stageErrors, crashed, parseErrors>>

Init ==
    /\ processEnv = AmbientPATH
    /\ cmds = <<>>
    /\ files = <<>>
    /\ handed = 0
    /\ busy = FALSE
    /\ pushed = <<>>
    /\ ticks = <<>>
    /\ children = <<>>
    /\ execs = <<>>
    /\ stdoutText = <<>>
    /\ stageErrors = <<>>
    /\ crashed = FALSE
    /\ parseErrors = <<>>

\* ---------------------------------------------------------------- parser.parse
\* ./lib/command-parser, generated from the grammar
\*     command       := program SPACE* arglist
\*     program       := token
\*     SPACE         := ' ' | '\t'
\*     arglist       := (SPACE* argument)*
\*     argument      := quoted_double | quoted_single | bare
\*     bare          := one-or-more characters excluding SPACE, quote characters
\*     quoted_double := '"' ( escaped_char | [^"\\] )* '"'
\*     quoted_single := '\'' [^']* '\''
\*     escaped_char  := '\\' any_char
\* read as a parsing expression grammar: a rule applied at position i of the
\* string s gives a node with the text it stands for (textValue) and the
\* position after it (next), or fails; choices are ordered, repetitions are
\* greedy, and the whole string has to be consumed.
SPACE == {" ", "\t"}
QUOTES == {"'", "\""}
Failure == [ok |-> FALSE]

RECURSIVE spaceEnd(_, _)
\* SPACE*: the position after the spaces that start at i.
spaceEnd(s, i) ==
    IF i <= Len(s) /\ s[i] \in SPACE THEN spaceEnd(s, i + 1) ELSE i

RECURSIVE bareEnd(_, _)
\* The position after the characters of a bare word that start at i.
bareEnd(s, i) ==
    IF i <= Len(s) /\ s[i] \notin SPACE \cup QUOTES THEN bareEnd(s, i + 1) ELSE i

bare(s, i) ==
    LET j == bareEnd(s, i) IN
    IF j = i THEN Failure
    ELSE [ok |-> TRUE, textValue |-> SubSeq(s, i, j - 1), next |-> j]

RECURSIVE singleEnd(_, _)
\* [^']*: the position after the characters other than ' that start at i.
singleEnd(s, i) ==
    IF i <= Len(s) /\ s[i] # "'" THEN singleEnd(s, i + 1) ELSE i

\* A quoted_single that takes the end of the string for the closing quote.
quoted_single_open(s, i) ==
    IF i > Len(s) \/ s[i] # "'" THEN Failure
    ELSE LET j == singleEnd(s, i + 1) IN
         [ok |-> TRUE, textValue |-> SubSeq(s, i + 1, j - 1), next |-> j + 1]

quoted_single(s, i) ==
    IF i > Len(s) \/ s[i] # "'" THEN Failure
    ELSE LET j == singleEnd(s, i + 1) IN
         IF j > Len(s) THEN Failure
         ELSE [ok |-> TRUE, textValue |-> SubSeq(s, i + 1, j - 1), next |-> j + 1]

\* A backslash and the character after it; it stands for that character.
escaped_char(s, i) ==
    IF i + 1 > Len(s) \/ s[i] # "\\" THEN Failure
    ELSE [ok |-> TRUE, textValue |-> <<s[i + 1]>>, next |-> i + 2]

RECURSIVE doubleBody(_, _, _)
\* ( escaped_char | [^"\\] )* '"' from position i, text being what was read.
doubleBody(s, i, text) ==
    IF i > Len(s) THEN Failure
    ELSE IF s[i] = "\"" THEN [ok |-> TRUE, textValue |-> text, next |-> i + 1]
    ELSE IF s[i] = "\\"
         THEN LET e == escaped_char(s, i) IN
              IF e.ok THEN doubleBody(s, e.next, text \o e.textValue) ELSE Failure
    ELSE doubleBody(s, i + 1, Append(text, s[i]))

quoted_double(s, i) ==
    IF i > Len(s) \/ s[i] # "\"" THEN Failure ELSE doubleBody(s, i + 1, <<>>)

\* A token ends where a space or the end of the string follows: one argument
\* has one quote style, and a quote inside a bare word is no token boundary.
tokenEnds(s, i) == i > Len(s) \/ s[i] \in SPACE

argument(s, i) ==
    LET d == quoted_double(s, i)
        q == quoted_single(s, i)
        b == bare(s, i)
        a == IF d.ok THEN d ELSE IF q.ok THEN q ELSE b IN
    IF a.ok /\ tokenEnds(s, a.next) THEN a ELSE Failure

RECURSIVE arglist(_, _, _)
\* (SPACE* argument)* from position i, nodes being the arguments read so far:
\* it stops, without consuming anything more, where no argument follows.
arglist(s, i, nodes) ==
    LET a == argument(s, spaceEnd(s, i)) IN
    IF a.ok THEN arglist(s, a.next, Append(nodes, [arg |-> a]))
    ELSE [ok |-> TRUE, elements |-> nodes, next |-> i]

program(s) ==
    LET b == bare(s, 1) IN
    IF b.ok /\ tokenEnds(s, b.next) THEN b ELSE Failure

\* parser.parse(command): the syntax tree of the command, whose elements are
\* the program, the spaces after it and the argument list; it throws when the
\* string is not a command.
parse(command) ==
    LET p == program(command) IN
    IF ~p.ok THEN Failure
    ELSE LET sp == spaceEnd(command, p.next)
             al == arglist(command, sp, <<>>) IN
         IF al.next <= Len(command) THEN Failure
         ELSE [ok |-> TRUE,
               elements |-> <<p,
                              [textValue |-> SubSeq(command, p.next, sp - 1)],
                              al>>]

\* ---------------------------------------------------------------- run(command)
\* env.PATH = './node_modules/.bin:' + env.PATH, where env is process.env itself.
PrependBin(path) == <<"./node_modules/.bin">> \o path

\* var cmd = ast.elements[0].textValue;
cmdOf(ast) == ast.elements[1].textValue

\* A faulty argsOf: the arguments are collected last first.
argsOf_reversed(ast) ==
    LET nodes == ast.elements[3].elements IN
    [i \in 1..Len(nodes) |-> nodes[Len(nodes) + 1 - i].arg.textValue]

\* ast.elements[2].elements.forEach(function (arg_node) {
\*     args.push(arg_node.arg.textValue); });
argsOf(ast) ==
    LET nodes == ast.elements[3].elements IN
    [i \in 1..Len(nodes) |-> nodes[i].arg.textValue]

\* A faulty run: the PATH is prepended to before the command is parsed.
run_envFirst(command) ==
    /\ ~crashed
    /\ Len(cmds) + Len(parseErrors) < MaxCmds
    /\ processEnv' = PrependBin(processEnv)
    /\ LET ast == parse(command) IN
       IF ~ast.ok
       THEN /\ parseErrors' = Append(parseErrors, command)
            /\ UNCHANGED cmds
       ELSE /\ cmds' = Append(cmds, [command |-> command, cmd |-> cmdOf(ast),
                                     args |-> argsOf(ast),
                                     made |-> PrependBin(processEnv)])
            /\ UNCHANGED parseErrors
    /\ UNCHANGED <<files, handed, busy, pushed, ticks, children, execs,
                   stdoutText, stageErrors, crashed>>

\* var run = module.exports = function (command) {...}: parses the command,
\* which may throw; otherwise takes the program and the arguments from the
\* tree, creates the stage and, env being process.env, prepends to the PATH of
\* the process. `made` records the PATH this construction computed.
run(command) ==
    /\ ~crashed
    /\ Len(cmds) + Len(parseErrors) < MaxCmds
    /\ LET ast == parse(command) IN
       IF ~ast.ok
       THEN /\ parseErrors' = Append(parseErrors, command)
            /\ UNCHANGED <<processEnv, cmds>>
       ELSE /\ processEnv' = PrependBin(processEnv)
            /\ cmds' = Append(cmds, [command |-> command, cmd |-> cmdOf(ast),
                                     args |-> argsOf(ast),
                                     made |-> PrependBin(processEnv)])
            /\ UNCHANGED parseErrors
    /\ UNCHANGED <<files, handed, busy, pushed, ticks, children, execs,
                   stdoutText, stageErrors, crashed>>

\* ---------------------------------------------------------------- child processes
\* child_process.spawn(cmd, args, {env:env}): env is process.env, so the child
\* gets the PATH the process has when it is spawned. A spawn that fails still
\* returns a child: its stdout ends with no output and an 'error' event is due.
spawn(k, via, owner, fails) ==
    [cmd |-> k, program |-> cmds[k].cmd, args |-> cmds[k].args,
     path |-> processEnv, via |-> via, owner |-> owner,
     failed |-> fails, errPending |-> fails,
     feed |-> NullContents, stdin |-> <<>>, stdinEnded |-> FALSE,
     out |-> <<>>, eof |-> fails, rd |-> 0, ended |-> FALSE,
     listener |-> 0]

\* file.pipe(child.stdin) of vinyl: a buffer is written whole and stdin ended;
\* a stream is piped (the data follows, asynchronously); anything else writes
\* nothing.
filePipe(file, child) ==
    IF isStream(file) THEN [child EXCEPT !.feed = file.contents]
    ELSE IF isBuffer(file)
         THEN [child EXCEPT !.feed = file.contents,
                            !.stdin = file.contents.bytes, !.stdinEnded = TRUE]
    ELSE IF isNull(file) THEN [child EXCEPT !.stdinEnded = TRUE]
    ELSE child

\* ---------------------------------------------------------------- the stage
DoneTick(f) == [type |-> "done", id |-> f]

\* The part of the state a call of _transform works on.
StageState == [files |-> files, children |-> children, pushed |-> pushed,
               ticks |-> ticks]

\* A faulty NullBranch: done() is deferred but the file is not pushed.
NullBranch_noPush(st, f) ==
    [st EXCEPT !.ticks = Append(@, DoneTick(f))]

\* if (file.isNull()) { stream.push(file); process.nextTick(done); return; }
NullBranch(st, f) ==
    [st EXCEPT !.pushed = Append(@, f), !.ticks = Append(@, DoneTick(f))]

\* A faulty StreamBranch: a copy of the file (a new object, numbered below
\* zero) is pushed in place of the file.
StreamBranch_clone(st, f, child) ==
    [st EXCEPT !.children = Append(@, child),
               !.files[f].contents = StreamOf("stdout", Len(st.children) + 1),
               !.pushed = Append(@, 0 - f),
               !.ticks = Append(@, DoneTick(f))]

\* A faulty StreamBranch: the contents slot is left as it was.
StreamBranch_noReplace(st, f, child) ==
    [st EXCEPT !.children = Append(@, child),
               !.pushed = Append(@, f),
               !.ticks = Append(@, DoneTick(f))]

\* if (file.isStream()) { file.contents = child.stdout; stream.push(file);
\*                        process.nextTick(done); return; }
StreamBranch(st, f, child) ==
    [st EXCEPT !.children = Append(@, child),
               !.files[f].contents = StreamOf("stdout", Len(st.children) + 1),
               !.pushed = Append(@, f),
               !.ticks = Append(@, DoneTick(f))]

\* A faulty BufferBranch: done() is deferred at once, as in the other branches,
\* and not left to the 'end' handler.
BufferBranch_eagerDone(st, f, child) ==
    [st EXCEPT !.children = Append(@, [child EXCEPT !.listener = f]),
               !.files[f].contents = BufferOf(EmptyBuffer),
               !.ticks = Append(@, DoneTick(f))]

\* if (file.isBuffer()) { file.contents = new Buffer(0); var stdout = child.stdout;
\*                        stdout.on('readable', ..); stdout.on('end', ..); return; }
BufferBranch(st, f, child) ==
    [st EXCEPT !.children = Append(@, [child EXCEPT !.listener = f]),
               !.files[f].contents = BufferOf(EmptyBuffer)]

\* Anything else: the function returns.
OtherBranch(st, f, child) ==
    [st EXCEPT !.children = Append(@, child)]

\* A faulty transform: file.pipe(child.stdin) is called last, after the branch
\* has replaced the contents.
transform_pipeLast(st, f, fails) ==
    LET file == st.files[f]
        c    == Len(st.children) + 1
        child == spawn(1, "pipe", f, fails) IN
    IF isNull(file) THEN NullBranch(st, f)
    ELSE LET r == IF isStream(file) THEN StreamBranch(st, f, child)
                  ELSE IF isBuffer(file) THEN BufferBranch(st, f, child)
                  ELSE OtherBranch(st, f, child) IN
         [r EXCEPT !.children[c] = filePipe(r.files[f], @)]

\* A faulty transform: one child process, the first one spawned, serves every
\* streaming file.
transform_sharedChild(st, f, fails) ==
    LET file == st.files[f] IN
    IF isNull(file) THEN NullBranch(st, f)
    ELSE LET child == filePipe(file, spawn(1, "pipe", f, fails)) IN
         IF isStream(file)
         THEN IF st.children = <<>> THEN StreamBranch(st, f, child)
              ELSE [st EXCEPT !.files[f].contents = StreamOf("stdout", 1),
                              !.pushed = Append(@, f),
                              !.ticks = Append(@, DoneTick(f))]
         ELSE IF isBuffer(file) THEN BufferBranch(st, f, child)
         ELSE OtherBranch(st, f, child)

\* stream._transform = function (file, enc, done) {...} called with file f.
transform(st, f, fails) ==
    LET file == st.files[f] IN
    IF isNull(file) THEN NullBranch(st, f)
    ELSE LET child == filePipe(file, spawn(1, "pipe", f, fails)) IN
         IF isStream(file) THEN StreamBranch(st, f, child)
         ELSE IF isBuffer(file) THEN BufferBranch(st, f, child)
         ELSE OtherBranch(st, f, child)

NewFile(kind, f, data) ==
    [path |-> f, orig |-> ArrivingContents(kind, f, data), data |-> data,
     contents |-> ArrivingContents(kind, f, data),
     done |-> 0, drained |-> <<>>, drainEnd |-> FALSE]

\* The non-null files written so far: each gets a child process.
Spawners == Cardinality({f \in 1..Len(files) : files[f].orig.t # "null"}) + Len(execs)

\* Upstream writes one more file to the stage. The Transform stream calls
\* _transform with it at once, unless the done() of an earlier file is still
\* due: then the file waits in the stream's buffer.
write(kind, data, fails) ==
    /\ ~crashed
    /\ Len(cmds) >= 1
    /\ Len(files) < MaxFiles
    /\ kind # "null" => Spawners < MaxChildren
    /\ LET f  == Len(files) + 1
           st == [StageState EXCEPT !.files = Append(@, NewFile(kind, f, data))]
           r  == IF busy THEN st ELSE transform(st, f, fails) IN
       /\ files' = r.files
       /\ children' = r.children
       /\ pushed' = r.pushed
       /\ ticks' = r.ticks
       /\ handed' = IF busy THEN handed ELSE f
       /\ busy' = TRUE
    /\ UNCHANGED <<parseErrors, processEnv, cmds, execs, stdoutText, stageErrors, crashed>>

\* The head of the process.nextTick queue runs: done() of a file. The Transform
\* stream then calls _transform with the next waiting file, if there is one.
tickDone(fails) ==
    /\ ~crashed
    /\ ticks # <<>>
    /\ Head(ticks).type = "done"
    /\ LET st == [StageState EXCEPT !.ticks = Tail(@),
                                    !.files[Head(ticks).id].done = @ + 1]
           more == handed < Len(files)
           r  == IF more THEN transform(st, handed + 1, fails) ELSE st IN
       /\ files' = r.files
       /\ children' = r.children
       /\ pushed' = r.pushed
       /\ ticks' = r.ticks
       /\ handed' = IF more THEN handed + 1 ELSE handed
       /\ busy' = more
    /\ UNCHANGED <<parseErrors, processEnv, cmds, execs, stdoutText, stageErrors, crashed>>

\* ---------------------------------------------------------------- child progress
\* A running child writes a chunk to its stdout.
childOutput(c, chunk) ==
    /\ ~crashed
    /\ ~children[c].eof
    /\ Len(children[c].out) < MaxChunks
    /\ children' = [children EXCEPT ![c].out = Append(@, chunk)]
    /\ UNCHANGED <<parseErrors, processEnv, cmds, files, handed, busy, pushed, ticks,
                   execs, stdoutText, stageErrors, crashed>>

\* A running child closes its stdout (it exits).
childExit(c) ==
    /\ ~crashed
    /\ ~children[c].eof
    /\ children' = [children EXCEPT ![c].eof = TRUE]
    /\ UNCHANGED <<parseErrors, processEnv, cmds, files, handed, busy, pushed, ticks,
                   execs, stdoutText, stageErrors, crashed>>

\* The 'error' event of a child whose spawn failed. Neither _transform nor exec
\* registers an 'error' listener on the child, so the emit throws and the
\* exception is uncaught.
childError(c) ==
    /\ ~crashed
    /\ ticks = <<>>
    /\ children[c].errPending
    /\ children' = [children EXCEPT ![c].errPending = FALSE]
    /\ crashed' = TRUE
    /\ UNCHANGED <<parseErrors, processEnv, cmds, files, handed, busy, pushed, ticks,
                   execs, stdoutText, stageErrors>>

\* A piped stream file: the data of the file's source reaches child.stdin.
pipeData(c) ==
    /\ ~crashed
    /\ ticks = <<>>
    /\ children[c].feed.t = "stream" /\ children[c].feed.of = "source"
    /\ ~children[c].stdinEnded
    /\ LET src == files[children[c].feed.id].data IN
       /\ Len(children[c].stdin) < Len(src)
       /\ children' = [children EXCEPT ![c].stdin =
              @ \o SubSeq(src, Len(@) + 1, Len(src))]
    /\ UNCHANGED <<parseErrors, processEnv, cmds, files, handed, busy, pushed, ticks,
                   execs, stdoutText, stageErrors, crashed>>

\* A piped stream file: the source ended, pipe() ends child.stdin.
pipeEnd(c) ==
    /\ ~crashed
    /\ ticks = <<>>
    /\ children[c].feed.t = "stream" /\ children[c].feed.of = "source"
    /\ ~children[c].stdinEnded
    /\ Len(children[c].stdin) = Len(files[children[c].feed.id].data)
    /\ children' = [children EXCEPT ![c].stdinEnded = TRUE]
    /\ UNCHANGED <<parseErrors, processEnv, cmds, files, handed, busy, pushed, ticks,
                   execs, stdoutText, stageErrors, crashed>>

\* ---------------------------------------------------------------- buffered mode
\* var chunk = stdout.read(): the k chunks that have reached the stream, as one
\* buffer.
stdoutRead(child, k) == Flatten(SubSeq(child.out, child.rd + 1, child.rd + k))

\* A faulty Accumulate: the new chunk is put in front.
Accumulate_reversed(contents, chunk) ==
    BufferConcat(<<chunk, contents>>, Len(contents) + Len(chunk))

\* file.contents = Buffer.concat([file.contents, chunk],
\*                               file.contents.length + chunk.length)
Accumulate(contents, chunk) ==
    BufferConcat(<<contents, chunk>>, Len(contents) + Len(chunk))

\* stdout.on('readable', function () { var chunk = stdout.read();
\*     if (chunk !== null) { file.contents = Buffer.concat(..) } }).
\* k = 0 is the read that returns null.
onReadable(c, k) ==
    /\ ~crashed
    /\ ticks = <<>>
    /\ children[c].listener # 0
    /\ ~children[c].ended
    /\ k <= Len(children[c].out) - children[c].rd
    /\ LET f == children[c].listener IN
       IF k # 0
       THEN /\ files' = [files EXCEPT ![f].contents =
                   BufferOf(Accumulate(files[f].contents.bytes,
                                       stdoutRead(children[c], k)))]
            /\ children' = [children EXCEPT ![c].rd = @ + k]
       ELSE UNCHANGED <<parseErrors, files, children>>
    /\ UNCHANGED <<parseErrors, processEnv, cmds, handed, busy, pushed, ticks, execs,
                   stdoutText, stageErrors, crashed>>

\* A readable stream emits 'end' once, after its end was reached and its last
\* data was read.
AtEnd(child) == child.eof /\ child.rd = Len(child.out) /\ ~child.ended

\* A faulty onEnd: the file is pushed but done() is not deferred.
onEnd_noDone(c) ==
    /\ ~crashed
    /\ ticks = <<>>
    /\ children[c].listener # 0
    /\ AtEnd(children[c])
    /\ children' = [children EXCEPT ![c].ended = TRUE]
    /\ pushed' = Append(pushed, children[c].listener)
    /\ UNCHANGED <<parseErrors, processEnv, cmds, files, handed, busy, execs, stdoutText,
                   stageErrors, crashed, ticks>>

\* stdout.on('end', function () { stream.push(file); process.nextTick(done); }).
onEnd(c) ==
    /\ ~crashed
    /\ ticks = <<>>
    /\ children[c].listener # 0
    /\ AtEnd(children[c])
    /\ children' = [children EXCEPT ![c].ended = TRUE]
    /\ pushed' = Append(pushed, children[c].listener)
    /\ ticks' = Append(ticks, DoneTick(children[c].listener))
    /\ UNCHANGED <<parseErrors, processEnv, cmds, files, handed, busy, execs, stdoutText,
                   stageErrors, crashed>>

\* ---------------------------------------------------------------- downstream
\* The consumer of a forwarded file reads the next chunk of its contents, when
\* the contents is the stdout of a child.
consume(f) ==
    /\ ~crashed
    /\ ticks = <<>>
    /\ f \in Range(pushed)
    /\ files[f].contents.t = "stream" /\ files[f].contents.of = "stdout"
    /\ LET c == files[f].contents.id IN
       /\ children[c].rd < Len(children[c].out)
       /\ files' = [files EXCEPT ![f].drained = @ \o stdoutRead(children[c], 1)]
       /\ children' = [children EXCEPT ![c].rd = @ + 1]
    /\ UNCHANGED <<parseErrors, processEnv, cmds, handed, busy, pushed, ticks, execs,
                   stdoutText, stageErrors, crashed>>

\* The consumer of a forwarded file sees the end of its contents.
consumeEnd(f) ==
    /\ ~crashed
    /\ ticks = <<>>
    /\ f \in Range(pushed)
    /\ files[f].contents.t = "stream" /\ files[f].contents.of = "stdout"
    /\ LET c == files[f].contents.id IN
       /\ AtEnd(children[c])
       /\ children' = [children EXCEPT ![c].ended = TRUE]
       /\ files' = [files EXCEPT ![f].drainEnd = TRUE]
    /\ UNCHANGED <<parseErrors, processEnv, cmds, handed, busy, pushed, ticks, execs,
                   stdoutText, stageErrors, crashed>>

\* ---------------------------------------------------------------- cmd.exec([print])
\* process.stdout.write('[' + title + '] ' + chunk.toString())
teeWrite(title, chunk) == <<"[">> \o title \o <<"] ">> \o chunk

\* A faulty teePush: the tee pushes what it printed, title and all.
teePush_titled(chunk) == <<"[", "] ">> \o chunk

\* stream.push(chunk) of tee
teePush(chunk) == chunk

\* contents: (print) ? child.stdout.pipe(tee(cmd)) : child.stdout
execContents(print, c, e) ==
    IF print THEN StreamOf("tee", e) ELSE StreamOf("stdout", c)

\* stream.exec = function (print) {...}: spawns the child, ends its stdin, wraps
\* its stdout (or the tee it is piped to) in a new vinyl file, and end()s a new
\* Transform stream with that file: its _transform pushes the file and defers
\* its callback.
exec(k, print, fails) ==
    /\ ~crashed
    /\ k \in 1..Len(cmds)
    /\ Len(execs) < MaxExecs
    /\ Spawners < MaxChildren
    /\ LET c == Len(children) + 1
           e == Len(execs) + 1 IN
       /\ children' = Append(children,
             [spawn(k, "exec", e, fails) EXCEPT !.stdinEnded = TRUE])
       /\ execs' = Append(execs,
             [cmd |-> k, print |-> print, child |-> c,
              contents |-> execContents(print, c, e), path |-> cmds[k].cmd,
              out |-> <<e>>, streamEnded |-> FALSE,
              teeBusy |-> FALSE, teeBuf |-> <<>>, teeRd |-> 0, teeEnded |-> FALSE,
              drained |-> <<>>, drainEnd |-> FALSE])
       /\ ticks' = Append(ticks, [type |-> "execCallback", id |-> e])
    /\ UNCHANGED <<parseErrors, processEnv, cmds, files, handed, busy, pushed, stdoutText,
                   stageErrors, crashed>>

\* The deferred callback of exec_stream._transform runs: the one write is done,
\* and the stream, already end()ed, ends after the file.
tickExecCallback ==
    /\ ~crashed
    /\ ticks # <<>>
    /\ Head(ticks).type = "execCallback"
    /\ ticks' = Tail(ticks)
    /\ execs' = [execs EXCEPT ![Head(ticks).id].streamEnded = TRUE]
    /\ UNCHANGED <<parseErrors, processEnv, cmds, files, handed, busy, pushed, children,
                   stdoutText, stageErrors, crashed>>

\* child.stdout.pipe(tee): the next chunk of the child's output is written to
\* the tee, whose _transform writes it to process.stdout behind the title,
\* pushes it and defers its callback.
teeTransform(e) ==
    /\ ~crashed
    /\ ticks = <<>>
    /\ execs[e].print
    /\ ~execs[e].teeBusy
    /\ LET c == execs[e].child
           chunk == stdoutRead(children[c], 1) IN
       /\ children[c].rd < Len(children[c].out)
       /\ stdoutText' = stdoutText \o teeWrite(cmds[execs[e].cmd].cmd, chunk)
       /\ execs' = [execs EXCEPT ![e].teeBuf = Append(@, teePush(chunk)),
                                 ![e].teeBusy = TRUE]
       /\ children' = [children EXCEPT ![c].rd = @ + 1]
       /\ ticks' = Append(ticks, [type |-> "teeCallback", id |-> e])
    /\ UNCHANGED <<parseErrors, processEnv, cmds, files, handed, busy, pushed, stageErrors,
                   crashed>>

\* The deferred callback of the tee's _transform runs.
tickTeeCallback ==
    /\ ~crashed
    /\ ticks # <<>>
    /\ Head(ticks).type = "teeCallback"
    /\ ticks' = Tail(ticks)
    /\ execs' = [execs EXCEPT ![Head(ticks).id].teeBusy = FALSE]
    /\ UNCHANGED <<parseErrors, processEnv, cmds, files, handed, busy, pushed, children,
                   stdoutText, stageErrors, crashed>>

\* child.stdout.pipe(tee): the child's output ended, pipe() ends the tee.
teeEnd(e) ==
    /\ ~crashed
    /\ ticks = <<>>
    /\ execs[e].print
    /\ ~execs[e].teeBusy
    /\ AtEnd(children[execs[e].child])
    /\ children' = [children EXCEPT ![execs[e].child].ended = TRUE]
    /\ execs' = [execs EXCEPT ![e].teeEnded = TRUE]
    /\ UNCHANGED <<parseErrors, processEnv, cmds, files, handed, busy, pushed, ticks,
                   stdoutText, stageErrors, crashed>>

\* The consumer of the file exec delivered reads the next chunk of its contents:
\* of the tee, or of the child's stdout.
consumeExec(e) ==
    /\ ~crashed
    /\ ticks = <<>>
    /\ IF execs[e].contents.of = "tee"
       THEN /\ execs[e].teeRd < Len(execs[e].teeBuf)
            /\ execs' = [execs EXCEPT ![e].drained = @ \o execs[e].teeBuf[execs[e].teeRd + 1],
                                      ![e].teeRd = @ + 1]
            /\ UNCHANGED children
       ELSE LET c == execs[e].contents.id IN
            /\ children[c].rd < Len(children[c].out)
            /\ execs' = [execs EXCEPT ![e].drained = @ \o stdoutRead(children[c], 1)]
            /\ children' = [children EXCEPT ![c].rd = @ + 1]
    /\ UNCHANGED <<parseErrors, processEnv, cmds, files, handed, busy, pushed, ticks,
                   stdoutText, stageErrors, crashed>>

\* The consumer of the file exec delivered sees the end of its contents.
consumeExecEnd(e) ==
    /\ ~crashed
    /\ ticks = <<>>
    /\ ~execs[e].drainEnd
    /\ IF execs[e].contents.of = "tee"
       THEN /\ execs[e].teeEnded
            /\ execs[e].teeRd = Len(execs[e].teeBuf)
            /\ UNCHANGED children
       ELSE /\ AtEnd(children[execs[e].contents.id])
            /\ children' = [children EXCEPT ![execs[e].contents.id].ended = TRUE]
    /\ execs' = [execs EXCEPT ![e].drainEnd = TRUE]
    /\ UNCHANGED <<parseErrors, processEnv, cmds, files, handed, busy, pushed, ticks,
                   stdoutText, stageErrors, crashed>>

\* ---------------------------------------------------------------- specification
Kinds == {"null", "stream", "buffer", "other"}

\* What child processes do on their own, whoever spawned them.
ChildStep ==
    \/ \E c \in 1..Len(children), chunk \in Chunks : childOutput(c, chunk)
    \/ \E c \in 1..Len(children) : childExit(c)
    \/ \E c \in 1..Len(children) : childError(c)

\* readable.pipe(cmd).pipe(writable): commands are constructed and files are
\* piped through the stage of the first one.
NextStage ==
    \/ \E command \in Commands : run(command)
    \/ \E kind \in Kinds, data \in Inputs, fails \in BOOLEAN :
          write(kind, IF kind \in {"stream", "buffer"} THEN data ELSE <<>>, fails)
    \/ \E fails \in BOOLEAN : tickDone(fails)
    \/ ChildStep
    \/ \E c \in 1..Len(children) : pipeData(c)
    \/ \E c \in 1..Len(children) : pipeEnd(c)
    \/ \E c \in 1..Len(children), k \in 0..MaxChunks : onReadable(c, k)
    \/ \E c \in 1..Len(children) : onEnd(c)
    \/ \E f \in 1..Len(files) : consume(f)
    \/ \E f \in 1..Len(files) : consumeEnd(f)

\* cmd.exec(print): commands are constructed and run directly.
NextExec ==
    \/ \E command \in Commands : run(command)
    \/ \E k \in 1..MaxCmds, print \in BOOLEAN, fails \in BOOLEAN : exec(k, print, fails)
    \/ tickExecCallback
    \/ ChildStep
    \/ \E e \in 1..Len(execs) : teeTransform(e)
    \/ tickTeeCallback
    \/ \E e \in 1..Len(execs) : teeEnd(e)
    \/ \E e \in 1..Len(execs) : consumeExec(e)
    \/ \E e \in 1..Len(execs) : consumeExecEnd(e)

\* run(command) with any command string, and then the spawns of the command
\* constructed, by files piped in and by exec(); children are left as spawned.
\* After a command that does not parse, run() is called with the usual one.
NextParse ==
    \/ \E command \in (IF cmds = <<>> /\ parseErrors = <<>>
                       THEN ParseInputs ELSE Commands) : run(command)
    \/ \E kind \in {"null", "buffer"} : write(kind, <<>>, FALSE)
    \/ tickDone(FALSE)
    \/ \E k \in 1..MaxCmds : exec(k, FALSE, FALSE)
    \/ tickExecCallback

\* The two uses of a command are independent of each other but for the
\* process-wide PATH and the uncaught exception, which both specifications
\* have; each is a specification of its own.
SpecStage == Init /\ [][NextStage]_vars

\* The event loop runs every callback deferred with process.nextTick.
SpecStageFair ==
    SpecStage /\ WF_vars(\E fails \in BOOLEAN : tickDone(fails))

SpecExec == Init /\ [][NextExec]_vars

SpecParse == Init /\ [][NextParse]_vars

\* ---------------------------------------------------------------- properties
Kind(f) == files[f].orig.t

Forwarded(f) == f \in Range(pushed)

DonePending(f) == \E i \in 1..Len(ticks) : ticks[i] = DoneTick(f)

\* The child processes spawned by _transform for file f.
ChildrenOf(f) ==
    {c \in 1..Len(children) : children[c].via = "pipe" /\ children[c].owner = f}

\* Nothing the stage has set up for file f can run any more: no done() is
\* deferred and no listener of its child is waiting for an event.
Settled(f) ==
    /\ ~DonePending(f)
    /\ \A c \in 1..Len(children) : children[c].listener = f => children[c].ended

\* C1: for every file handed to _transform, whatever its representation,
\* done() is called exactly once: never twice, and once everything the stage
\* has set up for the file has run, not zero times.
C1_DoneExactlyOnce ==
    \A f \in 1..handed :
        /\ files[f].done <= 1
        /\ Settled(f) => files[f].done = 1

\* C2: a buffered file is forwarded, and done() deferred, only after the 'end'
\* of its child's stdout, and from then on its contents are the child's output
\* chunks concatenated in order; until then they are the chunks read so far.
C2_BufferedAfterEnd ==
    \A f \in 1..handed :
        Kind(f) = "buffer" =>
            \E c \in ChildrenOf(f) :
                /\ files[f].contents =
                       BufferOf(Flatten(SubSeq(children[c].out, 1, children[c].rd)))
                /\ (Forwarded(f) \/ DonePending(f) \/ files[f].done > 0) =>
                       /\ children[c].eof /\ children[c].ended
                       /\ Forwarded(f)
                       /\ files[f].contents = BufferOf(Flatten(children[c].out))

\* A buffered file was forwarded and its done() called after its child wrote
\* two different chunks.
C2_Witness ==
    \E f \in 1..handed :
        /\ Kind(f) = "buffer" /\ Forwarded(f) /\ files[f].done = 1
        /\ \E c \in ChildrenOf(f) :
              Len(children[c].out) = 2 /\ children[c].out[1] # children[c].out[2]

\* C3: a streaming file has the stdout of its own child as contents, is
\* forwarded and has its done() deferred by the call of _transform itself, and
\* done() runs before anything of the child's output is read; what the
\* consumer drains from the contents is the child's output, in order, and all
\* of it once the contents ended.
C3_StreamingAtOnce ==
    \A f \in 1..handed :
        Kind(f) = "stream" =>
            \E c \in ChildrenOf(f) :
                /\ files[f].contents = StreamOf("stdout", c)
                /\ Forwarded(f)
                /\ DonePending(f) \/ files[f].done = 1
                /\ files[f].done = 0 => children[c].rd = 0 /\ ~children[c].ended
                /\ files[f].drained = Flatten(SubSeq(children[c].out, 1, children[c].rd))
                /\ files[f].drainEnd =>
                       children[c].eof /\ files[f].drained = Flatten(children[c].out)

\* One streaming file had its done() called while its child has written nothing
\* and still runs, and another was drained to the end of two different chunks.
C3_Witness ==
    \E f, g \in 1..handed :
        /\ Kind(f) = "stream" /\ files[f].done = 1
        /\ \E c \in ChildrenOf(f) : children[c].out = <<>> /\ ~children[c].eof
        /\ Kind(g) = "stream" /\ files[g].drainEnd
        /\ \E c \in ChildrenOf(g) :
              Len(children[c].out) = 2 /\ children[c].out[1] # children[c].out[2]

\* C4: a null file is forwarded as it came (same file, contents untouched), its
\* done() is deferred, and no child process is spawned for it.
C4_NullPassthrough ==
    \A f \in 1..handed :
        Kind(f) = "null" =>
            /\ Forwarded(f)
            /\ files[f].contents = files[f].orig /\ isNull(files[f])
            /\ files[f].path = f
            /\ DonePending(f) \/ files[f].done = 1
            /\ \A c \in 1..Len(children) : children[c].owner # f

\* Two null files went through and no child process exists.
C4_Witness ==
    /\ handed = 2 /\ Kind(1) = "null" /\ Kind(2) = "null"
    /\ files[1].done = 1 /\ files[2].done = 1
    /\ children = <<>>

\* C5: files are forwarded in the order they arrived in, whatever their
\* representations, and a file's done() is deferred or called only after the
\* file was pushed.
C5_ForwardInOrder ==
    /\ \A i, j \in 1..Len(pushed) : i < j => pushed[i] < pushed[j]
    /\ Range(pushed) \subseteq 1..handed
    /\ \A f \in 1..Len(files) :
          (DonePending(f) \/ files[f].done > 0) => Forwarded(f)
    /\ \A f \in 1..handed : f < handed => Forwarded(f) /\ files[f].done = 1

\* A buffered file whose child wrote output, then a streaming file, were both
\* forwarded and done.
C5_Witness ==
    /\ pushed = <<1, 2>>
    /\ Kind(1) = "buffer" /\ Kind(2) = "stream"
    /\ files[1].contents.bytes # <<>>
    /\ files[1].done = 1 /\ files[2].done = 1

\* C6: a child process whose spawn failed makes the stage emit an 'error', and
\* does not bring the process down.
C6_SpawnFailureSurfaces ==
    /\ ~crashed
    /\ \A c \in 1..Len(children) :
          (children[c].failed /\ ~children[c].errPending) => stageErrors # <<>>

\* The child process of call e of exec.
ExecChildren(e) ==
    {c \in 1..Len(children) : children[c].via = "exec" /\ children[c].owner = e}

ExecCallbackPending(e) ==
    \E i \in 1..Len(ticks) : ticks[i] = [type |-> "execCallback", id |-> e]

\* C7: each call of exec spawns exactly one child, ends its stdin with nothing
\* written to it, and returns a stream that holds exactly one file and ends
\* after it; what is drained from the file's contents is the child's output in
\* order, and all of it once the contents ended, with and without print.
C7_ExecOneChildOneFile ==
    /\ Len(children) = Len(execs)
    /\ \A e \in 1..Len(execs) :
          /\ ExecChildren(e) = {execs[e].child}
          /\ children[execs[e].child].stdin = <<>>
          /\ children[execs[e].child].stdinEnded
          /\ execs[e].out = <<e>>
          /\ execs[e].path = cmds[execs[e].cmd].cmd
          /\ ExecCallbackPending(e) \/ execs[e].streamEnded
          /\ IsPrefix(execs[e].drained, Flatten(children[execs[e].child].out))
          /\ execs[e].drainEnd =>
                /\ children[execs[e].child].eof
                /\ execs[e].drained = Flatten(children[execs[e].child].out)

\* Two calls of exec, one with print and one without, whose files were both
\* drained to the end of two different chunks.
C7_Witness ==
    /\ Len(execs) = 2
    /\ execs[1].print # execs[2].print
    /\ \A e \in 1..2 :
          /\ execs[e].drainEnd /\ execs[e].streamEnded
          /\ Len(children[execs[e].child].out) = 2
          /\ children[execs[e].child].out[1] # children[execs[e].child].out[2]

\* Position i of process.stdout is the start of a line.
LineStart(i) == i = 1 \/ stdoutText[i - 1] = NL

\* C8: with print, every line written to process.stdout begins with the title
\* and holds it once, however the child's output falls into chunks; without
\* print nothing is written.
C8_EveryLineTitledOnce ==
    /\ \A i \in 1..Len(stdoutText) : LineStart(i) <=> stdoutText[i] = "["
    /\ (\A e \in 1..Len(execs) : ~execs[e].print) => stdoutText = <<>>

\* C9: the PATH a command's children are spawned with is the one computed when
\* the command was constructed, and constructing further commands leaves the
\* PATH of the process as it was.
C9_EnvFixedAtConstruction ==
    /\ \A c \in 1..Len(children) : children[c].path = cmds[children[c].cmd].made
    /\ cmds # <<>> => processEnv = cmds[1].made

\* C10: every non-null file handed to _transform has exactly one child process
\* and no other file has one; a child's stdin gets only its own file's
\* contents, and a file's contents only its own child's output.
C10_OneChildPerFile ==
    /\ Len(children) = Cardinality({f \in 1..handed : Kind(f) # "null"})
    /\ \A f \in 1..Len(files) :
          Cardinality(ChildrenOf(f)) = IF f <= handed /\ Kind(f) # "null" THEN 1 ELSE 0
    /\ \A c \in 1..Len(children) :
          LET f == children[c].owner IN
          /\ children[c].via = "pipe"
          /\ children[c].feed = IF Kind(f) = "other" THEN NullContents ELSE files[f].orig
          /\ IsPrefix(children[c].stdin, files[f].data)
          /\ children[c].listener \in {0, f}
          /\ files[f].contents.of = "stdout" => files[f].contents.id = c
          /\ isBuffer(files[f]) /\ Kind(f) = "buffer" =>
                IsPrefix(files[f].contents.bytes, Flatten(children[c].out))
          /\ IsPrefix(files[f].drained, Flatten(children[c].out))

\* Two non-null files with different contents each have a running child of
\* their own, and each child was fed and has written something different.
C10_Witness ==
    /\ handed = 2 /\ Len(children) = 2
    /\ Kind(1) = "stream" /\ Kind(2) = "buffer"
    /\ files[1].data # files[2].data
    /\ children[1].stdin # children[2].stdin
    /\ children[1].out # <<>> /\ children[2].out # <<>>
    /\ children[1].out # children[2].out
    /\ files[1].drained # <<>> /\ files[2].contents.bytes # <<>>

\* The feed of child.stdin set up by file.pipe() has not come to its end yet.
FeedPending(c) ==
    /\ children[c].feed.t = "stream"
    /\ ~children[c].stdinEnded

\* C11: the stdin of the child of every non-null file gets the file's entire
\* contents and is then closed: it never holds anything but the start of the
\* contents, and once nothing more is due to be fed it is closed and holds all
\* of them.
C11_StdinFedThenClosed ==
    \A c \in 1..Len(children) :
        children[c].via = "pipe" =>
            /\ IsPrefix(children[c].stdin, files[children[c].owner].data)
            /\ ~FeedPending(c) =>
                  /\ children[c].stdinEnded
                  /\ children[c].stdin = files[children[c].owner].data

\* C12: a file that is neither null, stream nor buffer leaves no trace: it is
\* not forwarded, no error is emitted, and no child process is spawned for it.
C12_UnknownShapeNoEffect ==
    \A f \in 1..handed :
        Kind(f) = "other" =>
            /\ ~Forwarded(f)
            /\ stageErrors = <<>>
            /\ files[f].contents = files[f].orig
            /\ \A c \in 1..Len(children) : children[c].owner # f

C17_OneChildAtATime ==
    (\A f \in 1..Len(files) : Kind(f) = "buffer") =>
        /\ Cardinality({c \in 1..Len(children) : ~children[c].ended}) <= 1
        /\ \A c \in 1..Len(children) : c < Len(children) => children[c].ended

\* The children of two streaming files both run, each having written output.
C17_Witness ==
    /\ handed = 2 /\ Kind(1) = "stream" /\ Kind(2) = "stream"
    /\ Len(children) = 2
    /\ \A c \in 1..2 : ~children[c].failed /\ ~children[c].eof /\ children[c].out # <<>>

\* C18: what is fed to a child's stdin is the contents the file came with: the
\* feed is set up on the original contents, never on the empty buffer or the
\* child's own stdout that replace them.
C18_FedOriginalContents ==
    \A c \in 1..Len(children) :
        LET f == children[c].owner IN
        (children[c].via = "pipe" /\ Kind(f) \in {"stream", "buffer"}) =>
            /\ children[c].feed = files[f].orig
            /\ children[c].feed # StreamOf("stdout", c)
            /\ IsPrefix(children[c].stdin, files[f].data)
            /\ Kind(f) = "buffer" =>
                  children[c].stdin = files[f].data /\ children[c].stdinEnded

\* A buffered and a streaming file, both with contents, whose children have
\* been fed all of them and have written output that replaced them.
C18_Witness ==
    /\ handed = 2 /\ Len(children) = 2
    /\ Kind(1) = "buffer" /\ Kind(2) = "stream"
    /\ files[1].data # <<>> /\ files[2].data # <<>>
    /\ children[1].stdin = files[1].data
    /\ children[2].stdin = files[2].data /\ children[2].stdinEnded
    /\ files[1].contents.bytes # <<>> /\ files[2].drained # <<>>

\* The child whose 'end' buffered file f waits for had it.
EndReached(f) ==
    /\ f <= handed /\ Kind(f) = "buffer"
    /\ \E c \in ChildrenOf(f) : children[c].ended

\* While the child of buffered file f has not had its 'end', f is the last file
\* handed to _transform, it is not forwarded, nothing after it is, and its
\* done() is neither deferred nor called; with the 'end' f is forwarded and its
\* done() deferred.
BufferedStall ==
    \A c \in 1..Len(children) :
        LET f == children[c].listener IN
        f # 0 =>
            IF children[c].ended
            THEN Forwarded(f) /\ (DonePending(f) \/ files[f].done = 1)
            ELSE /\ handed = f
                 /\ Range(pushed) = 1..(f - 1)
                 /\ ~DonePending(f) /\ files[f].done = 0

\* C19: once the output of a buffered file's child has come to its end, the
\* file is forwarded and its done() is eventually called; until then the stage
\* forwards nothing and takes no further file, however long that lasts.
C19_BufferedLiveness ==
    /\ []BufferedStall
    /\ \A f \in 1..MaxFiles :
          EndReached(f) ~> (Forwarded(f) /\ files[f].done = 1)

\* A first buffered file is through; the child of a second one still runs, its
\* file waiting, with nothing else forwarded.
C19_Witness ==
    /\ handed = 2 /\ Kind(1) = "buffer" /\ Kind(2) = "buffer"
    /\ files[1].done = 1 /\ pushed = <<1>>
    /\ children[1].out # <<>>
    /\ ~children[2].eof /\ children[2].out # <<>> /\ ~children[2].failed

\* ---------------------------------------------------------------- command strings
RECURSIVE ModeAt(_, _)
\* Where the first i characters of s leave a reader of quoted text: outside
\* quotes, inside single or double ones, or behind a backslash in double ones.
ModeAt(s, i) ==
    IF i = 0 THEN "out"
    ELSE LET m == ModeAt(s, i - 1) IN
         CASE m = "out"    -> IF s[i] = "'" THEN "single"
                              ELSE IF s[i] = "\"" THEN "double" ELSE "out"
           [] m = "single" -> IF s[i] = "'" THEN "out" ELSE "single"
           [] m = "double" -> IF s[i] = "\"" THEN "out"
                              ELSE IF s[i] = "\\" THEN "escape" ELSE "double"
           [] m = "escape" -> "double"

\* Character i of s is white space between tokens.
Separates(s, i) == s[i] \in SPACE /\ ModeAt(s, i - 1) = "out"

\* Character i of s is text: it is no separator, no quote that opens or closes
\* and no backslash that escapes.
IsLiteral(s, i) ==
    LET m == ModeAt(s, i - 1) IN
    CASE m = "out"    -> s[i] \notin SPACE \cup QUOTES
      [] m = "single" -> s[i] # "'"
      [] m = "double" -> s[i] \notin {"\"", "\\"}
      [] m = "escape" -> TRUE

\* The positions where the tokens of s start, and the number of the token
\* position i is in.
TokenStarts(s) ==
    {i \in 1..Len(s) : ~Separates(s, i) /\ (i = 1 \/ Separates(s, i - 1))}
TokenOf(s, i) == Cardinality({j \in TokenStarts(s) : j <= i})

RECURSIVE LiteralOf(_, _, _)
\* The text of token n of s that lies at position i or after it.
LiteralOf(s, n, i) ==
    IF i > Len(s) THEN <<>>
    ELSE (IF IsLiteral(s, i) /\ TokenOf(s, i) = n THEN <<s[i]>> ELSE <<>>)
         \o LiteralOf(s, n, i + 1)

\* The tokens of s in source order, each as its text.
Tokens(s) == [n \in 1..Cardinality(TokenStarts(s)) |-> LiteralOf(s, n, 1)]

RECURSIVE LiteralText(_, _)
\* All the text of s at position i or after it.
LiteralText(s, i) ==
    IF i > Len(s) THEN <<>>
    ELSE (IF IsLiteral(s, i) THEN <<s[i]>> ELSE <<>>) \o LiteralText(s, i + 1)

\* The three ways a command string is malformed.
Blank(s) == \A i \in 1..Len(s) : s[i] \in SPACE
Unterminated(s) == ModeAt(s, Len(s)) # "out"
StrayQuote(s) ==
    \E i \in 2..Len(s) :
        /\ s[i] \in QUOTES /\ ModeAt(s, i - 1) = "out"
        /\ s[i - 1] \notin SPACE \cup QUOTES
Malformed(s) == Blank(s) \/ Unterminated(s) \/ StrayQuote(s)

\* The call of run() that throws changes nothing but the record of it.
ParseFailureStep ==
    parseErrors' # parseErrors =>
        UNCHANGED <<processEnv, cmds, files, handed, busy, pushed, ticks,
                    children, execs, stdoutText, stageErrors, crashed>>

\* What run() did for the commands that parse, and only for them.
OnlyParsedConstructed ==
    /\ \A e \in 1..Len(parseErrors) : ~parse(parseErrors[e]).ok
    /\ \A k \in 1..Len(cmds) : parse(cmds[k].command).ok
    /\ Len(processEnv) = Len(AmbientPATH) + Len(cmds)
    /\ \A c \in 1..Len(children) : children[c].cmd \in 1..Len(cmds)
    /\ cmds = <<>> => files = <<>> /\ execs = <<>> /\ children = <<>>

\* C13: run(command) with a command string that does not parse throws before
\* it does anything: the PATH of the process stays as it is, there is no stage
\* to write to and no child process is spawned for it.
C13_ParseFailureFirst ==
    /\ []OnlyParsedConstructed
    /\ [][ParseFailureStep]_vars

\* run() threw for one command; the usual one, constructed after it, has the
\* PATH prepended to once and its two children.
C13_Witness ==
    /\ Len(parseErrors) = 1 /\ Len(cmds) = 1
    /\ processEnv = PrependBin(AmbientPATH)
    /\ Len(children) = 2 /\ Len(execs) = 1 /\ handed = 1

\* C15: every child process is spawned with the program and the arguments of
\* its command, which are the tokens of the command string: the first one the
\* program, the others the arguments in source order, each as its text with
\* the quoting removed, equal ones kept, the white space between tokens left
\* out and the white space inside quotes kept.
C15_SpawnGetsParseResult ==
    /\ \A c \in 1..Len(children) :
          /\ children[c].program = cmds[children[c].cmd].cmd
          /\ children[c].args = cmds[children[c].cmd].args
    /\ \A k \in 1..Len(cmds) :
          /\ Tokens(cmds[k].command) # <<>>
          /\ cmds[k].cmd = Head(Tokens(cmds[k].command))
          /\ cmds[k].args = Tail(Tokens(cmds[k].command))

\* A file's child and an exec() child of a command with a quoted argument
\* given twice, spaces inside, and a bare one after it.
C15_Witness ==
    /\ Len(children) = 2
    /\ children[1].via = "pipe" /\ children[2].via = "exec"
    /\ \A c \in 1..2 :
          /\ children[c].cmd = 1
          /\ children[c].program = <<"a">>
          /\ children[c].args =
                << <<"a", " ", " ", "a">>, <<"a", " ", " ", "a">>, <<"a">> >>

\* C16: a command string that is empty or all white space, that has a quote
\* left open or a quote inside a bare word is never constructed into a command;
\* a command that is constructed has a program and, with its arguments, all
\* the text of the command string.
C16_MalformedRejected ==
    \A k \in 1..Len(cmds) :
        /\ ~Malformed(cmds[k].command)
        /\ cmds[k].cmd # <<>>
        /\ Flatten(<<cmds[k].cmd>> \o cmds[k].args) = LiteralText(cmds[k].command, 1)

\* run() threw for a command whose quote is left open, and then constructed
\* the usual command.
C16_Witness ==
    /\ Len(parseErrors) = 1 /\ Len(cmds) = 1
    /\ Unterminated(parseErrors[1])
    /\ ~Blank(parseErrors[1]) /\ ~StrayQuote(parseErrors[1])
    /\ Len(parseErrors[1]) >= 3

====
